---- MODULE Spec2Model ----
(***************************************************************************)
(* Car Rental Acquisition Simulator (src/app.py).                          *)
(*                                                                         *)
(* The program is a Streamlit script.  Its persistent state is the fleet   *)
(* table held by the data editor (seeded from st.session_state.fleet_df)   *)
(* and the current values of the sidebar widgets.  Every user interaction  *)
(* re-runs the whole script, which recomputes every financial figure from  *)
(* the table and the widgets and renders it.  The model keeps the table,   *)
(* the widget values and what the last run rendered.                       *)
(*                                                                         *)
(* Numbers are exact rationals; float('inf') is a value of its own.  The   *)
(* one place where the finite range of Python floats changes control flow, *)
(* the float power of line 85 raising OverflowError, is modelled.          *)
(***************************************************************************)
EXTENDS Integers, Sequences, FiniteSets, TLC

----------------------------------------------------------------------------
(* Exact rational arithmetic on mixed numbers: <<w, n, d>> is w + n/d with *)
(* d >= 1, 0 <= n < d and n/d in lowest terms, so equal numbers are equal  *)
(* tuples.                                                                 *)

Abs(x) == IF x < 0 THEN -x ELSE x

RECURSIVE GCD(_, _)
GCD(a, b) == IF b = 0 THEN a ELSE GCD(b, a % b)

\* w + n/d for any integers w, n and d >= 1, normalised.
Q(w, n, d) ==
    LET r == n % d
        g == GCD(r, d)
    IN  <<w + (n \div d), r \div g, d \div g>>

I(k) == <<k, 0, 1>>

Neg(x) == Q(-x[1], -x[2], x[3])

Add(x, y) ==
    LET g == GCD(x[3], y[3])
    IN  Q(x[1] + y[1],
          x[2] * (y[3] \div g) + y[2] * (x[3] \div g),
          (x[3] \div g) * y[3])

Sub(x, y) == Add(x, Neg(y))

\* The integer w times the fraction n/d.
IntFrac(w, n, d) ==
    LET g  == GCD(Abs(w), d)
        w1 == w \div g
        d1 == d \div g
    IN  Q((w1 \div d1) * n, (w1 % d1) * n, d1)

\* The product of the fractions n1/d1 and n2/d2.
FracFrac(n1, d1, n2, d2) ==
    LET g1 == GCD(n1, d2)
        g2 == GCD(n2, d1)
    IN  Q(0, (n1 \div g1) * (n2 \div g2), (d1 \div g2) * (d2 \div g1))

\* (xw + xf) * (yw + yf) = xw*yw + xw*yf + yw*xf + xf*yf
Mul(x, y) ==
    IF y[2] = 0
    THEN Add(I(x[1] * y[1]), IntFrac(y[1], x[2], x[3]))
    ELSE Add(Add(I(x[1] * y[1]), IntFrac(x[1], y[2], y[3])),
             Add(IntFrac(y[1], x[2], x[3]), FracFrac(x[2], x[3], y[2], y[3])))

\* 1/x for x # 0.
Inv(x) ==
    LET num == x[1] * x[3] + x[2]
    IN  IF num > 0 THEN Q(0, x[3], num) ELSE Q(0, -x[3], -num)

Div(x, y) == Mul(x, Inv(y))

Sign(x) == IF x[1] > 0 \/ (x[1] = 0 /\ x[2] > 0) THEN 1
           ELSE IF x[1] < 0 THEN -1 ELSE 0

Gt(x, y) == Sign(Sub(x, y)) = 1

Ge(x, y) == Sign(Sub(x, y)) >= 0

\* b^n for n >= 0, by repeated multiplication.
Pow(b, n) ==
    LET f[k \in 0 .. n] == IF k = 0 THEN I(1) ELSE Mul(b, f[k - 1])
    IN  f[n]

\* float('inf')
INF == <<1, 0, 0>>

IsInf(x) == x[3] = 0

----------------------------------------------------------------------------
(* Python float power:  base ** n  raises OverflowError when the result    *)
(* leaves the double range, i.e. when base^n >= 2^DBL_MAX_EXP.             *)

DBL_MAX_EXP == 1024

RECURSIVE Log2Floor(_)
Log2Floor(x) == IF Gt(I(2), x) THEN 0 ELSE 1 + Log2Floor(Div(x, I(2)))

\* Exact when base is a power of two (the bases the inputs below produce).
PowOverflows(base, n) == n * Log2Floor(base) >= DBL_MAX_EXP

----------------------------------------------------------------------------
(* The fleet table.  A cell of a numeric column is <<v>> or, when empty    *)
(* (None / NaN), <<>>.                                                     *)

C_NAME  == "name"
C_PRICE == "price"
C_RENT  == "rent"
C_MAINT == "maint"
C_INS   == "ins"

Row(n, p, r, m, i) ==
    [name |-> n, price |-> <<p>>, rent |-> <<r>>, maint |-> <<m>>, ins |-> <<i>>]

default_fleet_df ==
    << Row("Kia Picanto 1", 8000,  900, 3600, 1680),
       Row("Kia Picanto 2", 8000,  900, 3600, 1680),
       Row("Hyundai i10",   8000, 1000, 3600, 1680),
       Row("Lancer 1",      8000, 1000, 3600, 1680),
       Row("Kia rio 1",     8000,  900, 3600, 1680) >>

\* The row the data editor appends: every cell empty.
BlankRow == [name |-> "", price |-> <<>>, rent |-> <<>>, maint |-> <<>>, ins |-> <<>>]

\* pandas Series.sum(): empty cells are skipped, an all-empty column sums to 0.
RECURSIVE ColSum(_, _)
ColSum(df, col) ==
    IF df = <<>> THEN 0
    ELSE (IF Head(df)[col] = <<>> THEN 0 ELSE Head(df)[col][1]) + ColSum(Tail(df), col)

----------------------------------------------------------------------------
(* Sidebar widgets.                                                        *)

default_params ==
    [total_goodwill    |-> 15000,
     utilization_rate  |-> 85,
     summer_gap_total  |-> 8000,
     monthly_labor     |-> 500,
     fixed_opex_annual |-> 1500,
     ob_tax_rate       |-> 6,
     use_loan          |-> FALSE,
     loan_pct          |-> 0,
     loan_interest     |-> 0,
     loan_term         |-> 0]

----------------------------------------------------------------------------
(* The calculations of one script run, lines 72-125.                       *)

\* Faulty variant: a table of one row is taken for an empty one.
is_empty_m(df) == Len(df) <= 1

\* Line 72: edited_df.empty.
is_empty(df) == df = <<>>

\* Faulty variant: the loan amount is dropped together with the payment when the
\* term is not positive.
loan_amount_m(p, price) ==
    IF p.use_loan /\ p.loan_term > 0
    THEN Mul(price, Div(I(p.loan_pct), I(100))) ELSE I(0)

\* Line 79.
loan_amount_of(p, price) ==
    IF p.use_loan THEN Mul(price, Div(I(p.loan_pct), I(100))) ELSE I(0)

\* Faulty variant: the operands of the subtraction are swapped.
upfront_cash_m(price, amount) == Sub(amount, price)

\* Line 80.
upfront_cash_of(price, amount) == Sub(price, amount)

\* Line 85, annuity branch: amount * (rate * (1 + rate)^n) / ((1 + rate)^n - 1).
Annuity(amount, rate, periods) ==
    Div(Mul(amount, Mul(rate, Pow(Add(I(1), rate), periods))),
        Sub(Pow(Add(I(1), rate), periods), I(1)))

\* Faulty variant: the straight-line branch divides by the years, not the months.
monthly_loan_m(p, amount) ==
    IF p.use_loan /\ p.loan_term > 0
    THEN LET m_rate == Div(Div(I(p.loan_interest), I(100)), I(12))
             n_pay  == p.loan_term * 12
         IN  IF Gt(m_rate, I(0))
             THEN IF PowOverflows(Add(I(1), m_rate), n_pay)
                  THEN <<"raise", "OverflowError">>
                  ELSE <<"ok", Annuity(amount, m_rate, n_pay)>>
             ELSE <<"ok", Div(amount, I(p.loan_term))>>
    ELSE <<"ok", I(0)>>

\* Lines 82-87.  The result is <<"ok", payment>> or <<"raise", exception>>.
monthly_loan_of(p, amount) ==
    IF p.use_loan /\ p.loan_term > 0
    THEN LET m_rate == Div(Div(I(p.loan_interest), I(100)), I(12))
             n_pay  == p.loan_term * 12
         IN  IF Gt(m_rate, I(0))
             THEN IF PowOverflows(Add(I(1), m_rate), n_pay)
                  THEN <<"raise", "OverflowError">>
                  ELSE IF Pow(Add(I(1), m_rate), n_pay) = I(1)
                       THEN <<"raise", "ZeroDivisionError">>
                       ELSE <<"ok", Annuity(amount, m_rate, n_pay)>>
             ELSE <<"ok", Div(amount, I(n_pay))>>
    ELSE <<"ok", I(0)>>

\* Line 90.
base_annual_rev_of(df, p) ==
    Mul(I(ColSum(df, C_RENT) * 12), Div(I(p.utilization_rate), I(100)))

\* Faulty variant: the tax itself is kept instead of the revenue after tax.
after_tax_rev_m(gross, p) == Mul(gross, Div(I(p.ob_tax_rate), I(100)))

\* Lines 91-92.
after_tax_rev_of(gross, p) ==
    Mul(gross, Sub(I(1), Div(I(p.ob_tax_rate), I(100))))

\* Lines 95-96.
total_annual_opex_of(df, p) ==
    I(ColSum(df, C_MAINT) + ColSum(df, C_INS)
        + p.monthly_labor * 12 + p.fixed_opex_annual)

\* Faulty variant: "never" is reported as 0 months.
payback_m(upfront, flow) ==
    IF Gt(flow, I(0)) THEN Div(upfront, flow) ELSE I(0)

\* Line 103.
payback_of(upfront, flow) ==
    IF Gt(flow, I(0)) THEN Div(upfront, flow) ELSE INF

\* Line 104.
roi_of(profit, price) ==
    IF Gt(price, I(0)) THEN Mul(Div(profit, price), I(100)) ELSE I(0)

\* Lines 124-125: months = np.arange(0, 61).
months == 0 .. 60

\* Faulty variant: the months are counted from 1, as np.arange(1, 62) would.
cash_pos_shifted(upfront, flow) ==
    [m \in months |-> Add(Neg(upfront), Mul(flow, I(m + 1)))]

\* Faulty variant: the upfront cash is added, not subtracted.
cash_pos_plus(upfront, flow) ==
    [m \in months |-> Add(upfront, Mul(flow, I(m)))]

cash_pos_of(upfront, flow) ==
    [m \in months |-> Add(Neg(upfront), Mul(flow, I(m)))]

\* What one run renders: the warning of line 142, the dashboard of lines
\* 106-140, or the exception that ended the run.
calculations(df, p) ==
    IF is_empty(df)
    THEN [kind |-> "empty"]
    ELSE
    LET total_assets == I(ColSum(df, C_PRICE))
        total_price  == Add(total_assets, I(p.total_goodwill))
        loan_amount  == loan_amount_of(p, total_price)
        upfront_cash == upfront_cash_of(total_price, loan_amount)
        ml           == monthly_loan_of(p, loan_amount)
    IN  IF ml[1] = "raise"
        THEN [kind |-> "error", exc |-> ml[2]]
        ELSE
        LET monthly_loan       == ml[2]
            base_annual_rev    == base_annual_rev_of(df, p)
            gross_rev          == Add(base_annual_rev, I(p.summer_gap_total))
            after_tax_rev      == after_tax_rev_of(gross_rev, p)
            total_annual_opex  == total_annual_opex_of(df, p)
            annual_net_profit  == Sub(after_tax_rev, total_annual_opex)
            monthly_net_profit == Div(annual_net_profit, I(12))
            monthly_cash_flow  == Sub(monthly_net_profit, monthly_loan)
        IN  [kind               |-> "result",
             num_cars           |-> Len(df),
             total_assets       |-> total_assets,
             total_price        |-> total_price,
             loan_amount        |-> loan_amount,
             upfront_cash       |-> upfront_cash,
             monthly_loan       |-> monthly_loan,
             base_annual_rev    |-> base_annual_rev,
             gross_rev          |-> gross_rev,
             after_tax_rev      |-> after_tax_rev,
             total_annual_opex  |-> total_annual_opex,
             annual_net_profit  |-> annual_net_profit,
             monthly_net_profit |-> monthly_net_profit,
             monthly_cash_flow  |-> monthly_cash_flow,
             payback_months     |-> payback_of(upfront_cash, monthly_cash_flow),
             roi_pct            |-> roi_of(annual_net_profit, total_price),
             verdict            |-> IF Gt(monthly_cash_flow, I(0))
                                    THEN "success" ELSE "error",
             cash_pos           |-> cash_pos_of(upfront_cash, monthly_cash_flow)]

----------------------------------------------------------------------------
(* State.  fleet is the table the data editor shows, params the widget     *)
(* values, out what the last run rendered.  orig is a history variable: a  *)
(* switched-on observer keeps in it the table, the widget values and the   *)
(* rendering that were on screen when the table was last cleared.          *)

VARIABLES fleet, params, out, orig

vars == <<fleet, params, out, orig>>

NoSnapshot(on) ==
    [on |-> on, taken |-> FALSE, fleet |-> <<>>, params |-> default_params,
     out |-> [kind |-> "empty"]]

Observe(df) ==
    IF orig.on /\ fleet # <<>> /\ df = <<>>
    THEN [on |-> TRUE, taken |-> TRUE, fleet |-> fleet, params |-> params,
          out |-> out]
    ELSE orig

\* Faulty variant: the figures are kept from the last run while the number of rows
\* stays the same.
ScriptStale(df, p) ==
    /\ fleet'  = df
    /\ params' = p
    /\ out'    = IF Len(df) = Len(fleet) THEN out ELSE calculations(df, p)
    /\ orig'   = Observe(df)

\* One run of the script on the table df and the widget values p.
Script(df, p) ==
    /\ fleet'  = df
    /\ params' = p
    /\ out'    = calculations(df, p)
    /\ orig'   = Observe(df)

\* First run: session_state.fleet_df is seeded, the widgets show their defaults.
Init ==
    /\ fleet  = default_fleet_df
    /\ params = default_params
    /\ out    = calculations(default_fleet_df, default_params)
    /\ orig   = NoSnapshot(FALSE)

InitObserved ==
    /\ fleet  = default_fleet_df
    /\ params = default_params
    /\ out    = calculations(default_fleet_df, default_params)
    /\ orig   = NoSnapshot(TRUE)

----------------------------------------------------------------------------
(* Inputs of the runs.  The widgets accept far more values than these; the *)
(* sets are chosen so that every branch of the calculations is taken and   *)
(* every number stays within 32 bits.  An interest of 1200 % a year is a   *)
(* monthly rate of 1, the smallest positive rate whose annuity factor      *)
(* 2^12 / (2^12 - 1) is cheap to carry exactly.                            *)

MaxAdded == 1

\* The widgets that are moved, and the values they are moved to; the other
\* number inputs and sliders stay at their defaults.
WidgetValues ==
    [total_goodwill    |-> {0, 15000},
     fixed_opex_annual |-> {1500, 1520}]

\* <<loan_pct, loan_interest, loan_term>> with financing on.
LoanSettings ==
    { <<50,      0,  1>>, <<100,     0, 86>>,
      <<50,   1200,  1>>, <<100,  1200,  1>>,
      <<50,   1200, 86>>, <<100, -1200,  1>>,
      <<50,      0,  0>>, <<100,     0, -1>>,
      <<50,   1200,  0>>, <<100,  1200, -1>> }

CellValues == [price |-> {8000}]

\* Rows appended through the editor keep an empty name in this model.
Added(df) == {i \in 1 .. Len(df) : df[i].name = ""}

\* Row selections offered to the delete key: the last row, or every row.
Selections(df) == {{Len(df)}, 1 .. Len(df)} \ {{}, {0}}

----------------------------------------------------------------------------
(* User interactions; each one re-runs the script.                         *)

\* Data editor, num_rows="dynamic": append an empty row.
AddRow ==
    /\ Cardinality(Added(fleet)) < MaxAdded
    /\ Script(Append(fleet, BlankRow), params)

RECURSIVE Remove(_, _, _)
Remove(df, S, i) ==
    IF df = <<>> THEN <<>>
    ELSE IF i \in S THEN Remove(Tail(df), S, i + 1)
         ELSE <<Head(df)>> \o Remove(Tail(df), S, i + 1)

\* Data editor: delete the selected rows.
DeleteRows(S) ==
    /\ S # {}
    /\ Script(Remove(fleet, S, 1), params)

\* Data editor: type a value into a cell.
EditCell(i, col, v) ==
    /\ Script([fleet EXCEPT ![i][col] = <<v>>], params)

\* Sidebar number inputs and sliders, lines 30-39.
SetWidget(w, v) ==
    /\ Script(fleet, [params EXCEPT ![w] = v])

\* Sidebar section 4, lines 42-47: the checkbox and, when it is ticked, the
\* three loan widgets.
SetLoan(use, pct, interest, term) ==
    /\ Script(fleet,
              [params EXCEPT !.use_loan      = use,
                             !.loan_pct      = IF use THEN pct ELSE 0,
                             !.loan_interest = IF use THEN interest ELSE 0,
                             !.loan_term     = IF use THEN term ELSE 0])

\* The checkbox unticked: line 43 stands.
LoanOff == SetLoan(FALSE, 0, 0, 0)

Next ==
    \/ AddRow
    \/ \E S \in Selections(fleet) : DeleteRows(S)
    \/ \E i \in 1 .. Len(fleet), col \in DOMAIN CellValues :
          \E v \in CellValues[col] : EditCell(i, col, v)
    \/ \E w \in DOMAIN WidgetValues : \E v \in WidgetValues[w] : SetWidget(w, v)
    \/ \E l \in LoanSettings : SetLoan(TRUE, l[1], l[2], l[3])
    \/ LoanOff

Spec == Init /\ [][Next]_vars

\* The table edits and the goodwill widget, observed.
NextObserved ==
    \/ AddRow
    \/ \E S \in Selections(fleet) : DeleteRows(S)
    \/ \E i \in 1 .. Len(fleet), col \in DOMAIN CellValues :
          \E v \in CellValues[col] : EditCell(i, col, v)
    \/ \E v \in WidgetValues.total_goodwill : SetWidget("total_goodwill", v)

SpecObserved == InitObserved /\ [][NextObserved]_vars

----------------------------------------------------------------------------
(* Properties.                                                             *)

ValidResult == out.kind = "result"

Financed == fleet # <<>> /\ params.use_loan

\* total_price * loan_pct / 100 of the last run.
PctOfPrice == Div(Mul(out.total_price, I(params.loan_pct)), I(100))

\* C1: an empty table renders the no-data warning and nothing else, whatever
\* the widgets say; a table with a row never renders the warning.
C1_EmptyFleetSignal ==
    /\ fleet = <<>> => out = [kind |-> "empty"]
    /\ fleet # <<>> => out.kind # "empty"

C1_Witness ==
    /\ fleet = <<>>
    /\ params.use_loan
    /\ params.total_goodwill = 0
    /\ out.kind = "empty"

C3_NoFinancing ==
    (fleet # <<>> /\ ~params.use_loan) =>
        /\ ValidResult
        /\ out.loan_amount = I(0)
        /\ out.monthly_loan = I(0)
        /\ out.upfront_cash = out.total_price
        /\ out.monthly_cash_flow = out.monthly_net_profit

C3_Witness ==
    /\ ValidResult
    /\ ~params.use_loan
    /\ params.total_goodwill = 0
    /\ Len(fleet) = 2
    /\ Sign(out.total_price) = 1

\* C4 as stated: with financing at 0 % interest the payment is
\* loan_amount / (loan_term * 12) for every loan term.
C4_EveryTerm ==
    (ValidResult /\ params.use_loan /\ params.loan_interest = 0) =>
        /\ params.loan_term # 0
        /\ out.monthly_loan = Div(out.loan_amount, I(params.loan_term * 12))
        /\ out.loan_amount = PctOfPrice

\* C4 amended: with financing at 0 % interest and a positive loan term the
\* payment is loan_amount / (loan_term * 12), loan_amount being
\* total_price * loan_pct / 100.
C4_PositiveTerm ==
    (ValidResult /\ params.use_loan /\ params.loan_interest = 0
        /\ params.loan_term > 0) =>
        /\ out.monthly_loan = Div(out.loan_amount, I(params.loan_term * 12))
        /\ out.loan_amount = PctOfPrice

C4_Witness ==
    /\ ValidResult
    /\ params.use_loan
    /\ params.loan_interest = 0
    /\ params.loan_term = 86
    /\ Sign(out.monthly_loan) = 1

\* C5: the payback is the infinite sentinel exactly when the monthly cash
\* flow is not positive, and upfront_cash / monthly_cash_flow otherwise.
C5_PaybackSentinel ==
    ValidResult =>
        /\ IsInf(out.payback_months) <=> Sign(out.monthly_cash_flow) <= 0
        /\ Sign(out.monthly_cash_flow) = 1 =>
              out.payback_months = Div(out.upfront_cash, out.monthly_cash_flow)

C5_Witness ==
    /\ ValidResult
    /\ out.monthly_cash_flow = I(0)
    /\ Sign(out.upfront_cash) = 1
    /\ IsInf(out.payback_months)

\* C6: the series has the 61 points of months 0..60, starts at -upfront_cash
\* and rises by monthly_cash_flow from each month to the next.
C6_LinearSeries ==
    ValidResult =>
        /\ DOMAIN out.cash_pos = 0 .. 60
        /\ Cardinality(DOMAIN out.cash_pos) = 61
        /\ out.cash_pos[0] = Neg(out.upfront_cash)
        /\ \A m \in 0 .. 59 :
              Sub(out.cash_pos[m + 1], out.cash_pos[m]) = out.monthly_cash_flow

C6_Witness ==
    /\ ValidResult
    /\ params.use_loan
    /\ Sign(out.monthly_loan) = 1
    /\ Sign(out.monthly_cash_flow) = -1
    /\ out.monthly_cash_flow[2] # 0
    /\ Sign(out.upfront_cash) = 1

\* C7: every run on a table with a row completes with a result, whose ROI is
\* annual_net_profit / total_price * 100 for a positive price and 0 otherwise.
C7_NeverRaises ==
    fleet # <<>> =>
        /\ ValidResult
        /\ out.roi_pct = IF Sign(out.total_price) = 1
                         THEN Mul(Div(out.annual_net_profit, out.total_price), I(100))
                         ELSE I(0)

\* C8: the figures of the default scenario.
C8_DefaultScenario ==
    (fleet = default_fleet_df /\ params = default_params) =>
        /\ ValidResult
        /\ out.total_assets = I(40000)
        /\ out.total_price = I(55000)
        /\ out.base_annual_rev = I(47940)
        /\ out.gross_rev = I(55940)
        /\ out.after_tax_rev = Q(52583, 60, 100)
        /\ out.total_annual_opex = I(33900)
        /\ out.annual_net_profit = Q(18683, 60, 100)
        /\ out.upfront_cash = I(55000)
        /\ out.monthly_net_profit = Div(Q(18683, 60, 100), I(12))
        /\ out.monthly_cash_flow = out.monthly_net_profit
        /\ Ge(out.monthly_net_profit, Q(1556, 965, 1000))
        /\ Gt(Q(1556, 975, 1000), out.monthly_net_profit)
        /\ Gt(out.payback_months, I(35))
        /\ Gt(I(36), out.payback_months)
        /\ Ge(out.payback_months, Q(35, 25, 100))
        /\ Gt(Q(35, 35, 100), out.payback_months)

C8_Witness ==
    /\ fleet = default_fleet_df
    /\ params = default_params
    /\ ValidResult
    /\ out.verdict = "success"

\* C9: with financing and a loan term that is not positive the run completes
\* with a payment of 0, the loan amount and the upfront cash still following
\* the loan percentage; with a positive term a completed run shows the
\* annuity payment for a positive rate and loan_amount / n otherwise.
C9_LoanTerm ==
    Financed =>
        /\ params.loan_term <= 0 =>
              /\ ValidResult
              /\ out.monthly_loan = I(0)
              /\ out.loan_amount = PctOfPrice
              /\ out.upfront_cash = Sub(out.total_price, out.loan_amount)
        /\ (params.loan_term > 0 /\ ValidResult) =>
              LET rate == Div(I(params.loan_interest), I(1200))
                  n    == params.loan_term * 12
              IN  IF Sign(rate) = 1
                  THEN Mul(out.monthly_loan, Sub(Pow(Add(I(1), rate), n), I(1)))
                         = Mul(out.loan_amount, Mul(rate, Pow(Add(I(1), rate), n)))
                  ELSE out.monthly_loan = Div(out.loan_amount, I(n))

C9_Witness ==
    /\ ValidResult
    /\ params.use_loan
    /\ params.loan_term <= 0
    /\ params.loan_interest > 0
    /\ Sign(out.loan_amount) = 1
    /\ out.monthly_loan = I(0)

\* The series is at or above the break-even line in month m exactly when the
\* payback is finite and m has reached it.
BreakEvenAgrees ==
    \A m \in months :
        Sign(out.cash_pos[m]) >= 0
            <=> (~IsInf(out.payback_months) /\ Ge(I(m), out.payback_months))

\* C10 as stated: for every run with a result.
C10_Always == ValidResult => BreakEvenAgrees

\* C10 amended: for every run with a result whose upfront cash or monthly
\* cash flow is positive.
C10_BreakEven ==
    (ValidResult /\ (Sign(out.upfront_cash) = 1 \/ Sign(out.monthly_cash_flow) = 1))
        => BreakEvenAgrees

C10_Witness ==
    /\ ValidResult
    /\ ~IsInf(out.payback_months)
    /\ out.payback_months[2] # 0
    /\ Sign(out.cash_pos[0]) = -1
    /\ Sign(out.cash_pos[60]) = 1

====
